---- MODULE Spec2Model ----
(***************************************************************************)
(* FunASRClient (funasr-client-ts): the session over one WebSocket per     *)
(* connect() call, the receive path with the result decoder, send() and    *)
(* the graceful close() that races the completion promise against a timer. *)
(*                                                                         *)
(* One step of the model is one task of the JavaScript event loop: a call  *)
(* made by the caller or one event handler, together with the promise      *)
(* reactions (the code after an `await`) that the task makes runnable,     *)
(* because the microtask queue is drained before the next task starts.     *)
(*                                                                         *)
(* A JSON object is a function from the names of its defined fields; a     *)
(* field whose value is `undefined` is a name outside the domain.  A JSON  *)
(* text is a sequence of one-character strings.                            *)
(***************************************************************************)
EXTENDS Integers, Sequences, FiniteSets, TLC

(***************************************************************************)
(* Bounds of the exploration.                                              *)
(***************************************************************************)
MaxConnects == 2
MaxMessages == 2
MaxSends == 2
MaxCloses == 1
MaxSets == 1

(***************************************************************************)
(* JSON objects.                                                           *)
(***************************************************************************)
Has(obj, k) == k \in DOMAIN obj

Put(obj, k, v) == [x \in (DOMAIN obj) \cup {k} |-> IF x = k THEN v ELSE obj[x]]

Without(obj, k) == [x \in (DOMAIN obj) \ {k} |-> obj[x]]

(***************************************************************************)
(* JSON.parse of the textual timestamp field: an array of arrays of        *)
(* integers, scanned character by character.                               *)
(***************************************************************************)
DigitValue(ch) ==
    CASE ch = "0" -> 0 [] ch = "1" -> 1 [] ch = "2" -> 2 [] ch = "3" -> 3
      [] ch = "4" -> 4 [] ch = "5" -> 5 [] ch = "6" -> 6 [] ch = "7" -> 7
      [] ch = "8" -> 8 [] ch = "9" -> 9

RECURSIVE ScanPairs(_, _, _, _, _, _, _, _)
ScanPairs(s, i, depth, num, has, neg, pair, out) ==
    IF i > Len(s) THEN out
    ELSE LET ch == s[i]
             val == IF neg THEN 0 - num ELSE num
             pair2 == IF has THEN Append(pair, val) ELSE pair
         IN  CASE ch = "[" -> ScanPairs(s, i + 1, depth + 1, 0, FALSE, FALSE, <<>>, out)
               [] ch = "]" -> IF depth = 2
                              THEN ScanPairs(s, i + 1, 1, 0, FALSE, FALSE, <<>>, Append(out, pair2))
                              ELSE out
               [] ch = "," -> IF depth = 2
                              THEN ScanPairs(s, i + 1, 2, 0, FALSE, FALSE, pair2, out)
                              ELSE ScanPairs(s, i + 1, depth, 0, FALSE, FALSE, pair, out)
               [] ch = "-" -> ScanPairs(s, i + 1, depth, num, has, TRUE, pair, out)
               [] ch = " " -> ScanPairs(s, i + 1, depth, num, has, neg, pair, out)
               [] OTHER    -> ScanPairs(s, i + 1, depth, num * 10 + DigitValue(ch), TRUE, neg, pair, out)

JSONParsePairs(s) == ScanPairs(s, 1, 0, 0, FALSE, FALSE, <<>>, <<>>)

(***************************************************************************)
(* JSON.stringify of the hotword map (word -> weight).  The map is the     *)
(* sequence of its entries in insertion order, which is the order          *)
(* JSON.stringify writes them in.                                          *)
(***************************************************************************)
DigitChar(d) ==
    CASE d = 0 -> "0" [] d = 1 -> "1" [] d = 2 -> "2" [] d = 3 -> "3"
      [] d = 4 -> "4" [] d = 5 -> "5" [] d = 6 -> "6" [] d = 7 -> "7"
      [] d = 8 -> "8" [] d = 9 -> "9"

RECURSIVE NatChars(_)
NatChars(n) == IF n < 10 THEN <<DigitChar(n)>>
               ELSE Append(NatChars(n \div 10), DigitChar(n % 10))

RECURSIVE EntriesChars(_, _)
EntriesChars(entries, i) ==
    IF i > Len(entries) THEN <<>>
    ELSE (IF i > 1 THEN <<",">> ELSE <<>>)
         \o <<"\"", entries[i][1], "\"", ":">> \o NatChars(entries[i][2])
         \o EntriesChars(entries, i + 1)

JSONStringifyMap(entries) == <<"{">> \o EntriesChars(entries, 1) \o <<"}">>

(***************************************************************************)
(* The WebSocket of the platform, as far as the client uses it.            *)
(*   readyState : "connecting", "open", "closing", "closed"                *)
(*   opened     : the open event has fired                                 *)
(*   ev         : "none", then "error" after the error event, then "done"  *)
(*                after the close event                                    *)
(*   wire       : what has been transmitted on it, in order                *)
(***************************************************************************)
NewWebSocket == [readyState |-> "connecting", opened |-> FALSE, ev |-> "none", wire |-> <<>>]

\* send() throws InvalidStateError while connecting, transmits while open and
\* discards the data silently while closing or closed.
WsSendThrows(w) == w.readyState = "connecting"

WsSend(w, m) == IF w.readyState = "open" THEN [w EXCEPT !.wire = Append(@, m)] ELSE w

\* close() starts the closing handshake, or does nothing when already closing or closed.
WsClose(w) == IF w.readyState \in {"connecting", "open"}
              THEN [w EXCEPT !.readyState = "closing"] ELSE w

TextFrame(obj) == [kind |-> "text", body |-> obj]

BinaryFrame(f) == [kind |-> "binary", body |-> f]

IsHandshake(m) == m.kind = "text" /\ m.body.is_speaking = TRUE

IsEndOfSpeech(m) == m.kind = "text" /\ m.body.is_speaking = FALSE

IsAudio(m) == m.kind = "binary"

(***************************************************************************)
(* Configurations the caller may construct the client with.                *)
(***************************************************************************)
EmptyObject == [x \in {} |-> 0]

DefaultChunkSize == <<5, 10, 5>>

Configs ==
    { EmptyObject,
      [mode |-> "2pass", hotwords |-> << <<"alpha", 10>> >>],
      [mode |-> "online", chunk_size |-> <<8, 8, 4>>],
      [is_speaking |-> FALSE, itn |-> TRUE, hotwords |-> <<>>] }

StartTimes == {0 - 5, 0, 1000}

InitPayloadNoChunkDefault(config) ==
    LET spread == Put(config, "is_speaking", TRUE)
    IN  IF Has(config, "hotwords")
        THEN Put(spread, "hotwords", JSONStringifyMap(config.hotwords))
        ELSE Without(spread, "hotwords")

\* The payload of the first message, after JSON.stringify has dropped the
\* fields whose value is undefined.
InitPayload(config) ==
    LET spread == Put(config, "is_speaking", TRUE)
        chunked == Put(spread, "chunk_size",
                       IF Has(config, "chunk_size") THEN config.chunk_size ELSE DefaultChunkSize)
    IN  IF Has(config, "hotwords")
        THEN Put(chunked, "hotwords", JSONStringifyMap(config.hotwords))
        ELSE Without(chunked, "hotwords")

EndOfSpeechPayload == [is_speaking |-> FALSE]

(***************************************************************************)
(* State.                                                                  *)
(***************************************************************************)
VARIABLES
    opts,          \* the options: decode, startTime (<<>> when undefined, else <<t>>), config
    socket,        \* this.socket: 0 when undefined, else an index of ws
    finalPromise,  \* this.finalPromise: 0 when undefined, else an index of finals
    ws,            \* the WebSockets created so far, one per connect()
    finals,        \* the state of the promise each connect() created: "pending" or "fulfilled"
    outcomes,      \* the promise each connect() returned: "pending", "resolved", "rejected"
    observed,      \* the calls of opts.onStateChange, in order
    received,      \* the number of message events handled
    delivered,     \* the calls of opts.onMessage, in order: the WebSocket, the parsed
                   \* message, the argument of the call, and opts.startTime and the
                   \* state of the connect()'s promise at the call
    closes,        \* the calls of close(), in order
    sends,         \* the calls of send(), in order: the readyState each found ("none"
                   \* without a WebSocket); the n-th call carries frame n
    warnings,      \* the number of console.warn calls
    thrown,        \* the operations that raised an error
    setCalls,      \* the number of calls of setStartTime()
    limit,         \* how many calls and messages this exploration makes
    mic            \* the MicASR around the client and its AudioRecorder

vars == <<opts, socket, finalPromise, ws, finals, outcomes, observed, received,
          delivered, closes, sends, warnings, thrown, setCalls, limit, mic>>

AllOpts == [decode : BOOLEAN, startTime : {<<>>} \cup {<<t>> : t \in StartTimes}, config : Configs]

\* Three families of runs: one connection with several messages, frames and
\* close() calls; a session that connects again; and one connection under
\* every configuration, with setStartTime() calls and no audio.
SessionLimit == [connects |-> 1, messages |-> MaxMessages, sends |-> MaxSends,
                 closes |-> MaxCloses, sets |-> 0]

ReconnectLimit == [connects |-> MaxConnects, messages |-> 1, sends |-> 1,
                   closes |-> 1, sets |-> 0]

DecoderLimit == [connects |-> 1, messages |-> MaxMessages, sends |-> 0,
                 closes |-> 1, sets |-> MaxSets]

\* A MicASR whose start() and stop() have not been called: the fields of its
\* AudioRecorder are undefined.
NoMic == [start |-> "idle", stop |-> "idle", stream |-> "none", context |-> "none",
          source |-> "none", processor |-> "none"]

\* The options of the third family: every configuration without an origin,
\* and every origin under the empty configuration.  The configuration is read
\* only by socket.onopen and the origin only by socket.onmessage.
DecoderOpts == {o \in AllOpts : o.config = EmptyObject \/ o.startTime = <<>>}

PlainOpts == [decode |-> TRUE, startTime |-> <<>>, config |-> EmptyObject]

Constructed ==
    /\ socket = 0
    /\ finalPromise = 0
    /\ ws = <<>>
    /\ finals = <<>>
    /\ outcomes = <<>>
    /\ observed = <<>>
    /\ received = 0
    /\ delivered = <<>>
    /\ closes = <<>>
    /\ sends = <<>>
    /\ warnings = 0
    /\ thrown = {}
    /\ setCalls = 0
    /\ mic = NoMic

Init ==
    /\ Constructed
    /\ \/ /\ limit = SessionLimit
          /\ opts = PlainOpts
       \/ /\ limit = ReconnectLimit
          /\ opts = PlainOpts
       \/ /\ limit = DecoderLimit
          /\ opts \in DecoderOpts

SettleAgain(p, v) == v

\* A promise settles once: resolve and reject of a settled promise do nothing.
Settle(p, v) == IF p = "pending" THEN v ELSE p

Notify(c, s) == [observed EXCEPT ![c] = Append(@, s)]

(***************************************************************************)
(* connect().  A second connect() while the outcome of the previous one is *)
(* pending is outside the contract of the client and is not explored.      *)
(***************************************************************************)
ConnectCall ==
    /\ Len(ws) < limit.connects
    /\ socket # 0 => outcomes[socket] # "pending"
    /\ finals' = Append(finals, "pending")
    /\ finalPromise' = Len(finals) + 1
    /\ ws' = Append(ws, NewWebSocket)
    /\ socket' = Len(ws) + 1
    /\ outcomes' = Append(outcomes, "pending")
    /\ observed' = Append(observed, <<>>)
    /\ UNCHANGED <<opts, received, delivered, closes, sends, warnings, thrown, setCalls, limit>>

\* connect() called by the user of the client.
Connect == ConnectCall /\ UNCHANGED mic

OnOpenTransmitNothing(sockets) == sockets

\* What socket.onopen does to the WebSockets: this.socket?.send(JSON.stringify(payload)).
OnOpenTransmit(sockets) ==
    IF socket = 0 THEN sockets
    ELSE [sockets EXCEPT ![socket] = WsSend(@, TextFrame(InitPayload(opts.config)))]

\* The open event of WebSocket c and its handler.
OnOpen(c) ==
    /\ ws[c].readyState = "connecting"
    /\ LET opened == [ws EXCEPT ![c].readyState = "open", ![c].opened = TRUE]
       IN  IF socket # 0 /\ WsSendThrows(opened[socket])
           THEN /\ ws' = opened
                /\ thrown' = thrown \cup {"onopen"}
                /\ UNCHANGED <<observed, outcomes>>
           ELSE /\ ws' = OnOpenTransmit(opened)
                /\ observed' = Notify(c, "connected")
                /\ outcomes' = [outcomes EXCEPT ![c] = Settle(@, "resolved")]
                /\ UNCHANGED thrown
    /\ UNCHANGED <<opts, socket, finalPromise, finals, received, delivered, closes,
                   sends, warnings, setCalls, limit, mic>>

SendAllowedUnlessClosed(w) == w.readyState # "closed"

\* The test send() makes before it transmits.
SendAllowed(w) == w.readyState = "open"

\* The readyState a call finds: this.socket?.readyState.
ReadyState == IF socket = 0 THEN "none" ELSE ws[socket].readyState

\* send(pcm): the n-th call carries frame n.
SendCall ==
    /\ Len(sends) < limit.sends
    /\ sends' = Append(sends, ReadyState)
    /\ IF socket # 0 /\ SendAllowed(ws[socket])
       THEN IF WsSendThrows(ws[socket])
            THEN /\ thrown' = thrown \cup {"send"}
                 /\ UNCHANGED ws
            ELSE /\ ws' = [ws EXCEPT ![socket] = WsSend(@, BinaryFrame(Len(sends) + 1))]
                 /\ UNCHANGED thrown
       ELSE UNCHANGED <<ws, thrown>>
    /\ UNCHANGED <<opts, socket, finalPromise, finals, outcomes, observed, received,
                   delivered, closes, warnings, setCalls, limit>>

\* send(pcm) called by the user of the client.
Send == SendCall /\ UNCHANGED mic

(***************************************************************************)
(* Messages the server may send (FunASRMessage), as JSON.parse(event.data) *)
(* returns them.                                                           *)
(***************************************************************************)
TextPartial == <<"[", "[", "1", "0", "0", ",", "2", "0", "0", "]", ",", " ",
                 "[", "2", "0", "0", ",", "5", "0", "0", "]", "]">>

TextFinal == <<"[", "[", "0", ",", "1", "0", "0", "]", "]">>

SentsPartial ==
    << [text_seg |-> "a b", punc |-> ",", start |-> 430, end |-> 1130,
        ts_list |-> << <<430, 670>>, <<670, 1130>> >>],
       [text_seg |-> "c", punc |-> "", start |-> 0 - 1, end |-> 0 - 1,
        ts_list |-> << <<0 - 1, 0 - 1>> >>] >>

InboundMessages ==
    { [mode |-> "2pass-online", wav_name |-> "t", text |-> "hi", is_final |-> FALSE],
      [mode |-> "2pass-online", wav_name |-> "t", text |-> "hi there", is_final |-> FALSE,
       timestamp |-> TextPartial, stamp_sents |-> SentsPartial],
      [mode |-> "2pass-offline", wav_name |-> "t", text |-> "hi there.", is_final |-> TRUE,
       timestamp |-> TextFinal, stamp_sents |-> <<>>],
      [mode |-> "2pass-offline", wav_name |-> "t", text |-> "", is_final |-> TRUE] }

(***************************************************************************)
(* The result decoder of socket.onmessage.                                 *)
(***************************************************************************)
ShiftPair(ts, startTime) == <<ts[1] + startTime, ts[2] + startTime>>

RealTimestamp(pairs, startTime) == [i \in 1..Len(pairs) |-> ShiftPair(pairs[i], startTime)]

RealSentGuardedPairs(sent, startTime) ==
    [sent EXCEPT !.ts_list = [i \in 1..Len(sent.ts_list) |->
                                IF sent.ts_list[i][1] >= 0 /\ sent.ts_list[i][2] >= 0
                                THEN ShiftPair(sent.ts_list[i], startTime)
                                ELSE sent.ts_list[i]],
                 !.start = IF sent.start >= 0 THEN sent.start + startTime ELSE sent.start,
                 !.end = IF sent.end >= 0 THEN sent.end + startTime ELSE sent.end]

RealSentUnconditional(sent, startTime) ==
    [sent EXCEPT !.ts_list = [i \in 1..Len(sent.ts_list) |-> ShiftPair(sent.ts_list[i], startTime)],
                 !.start = sent.start + startTime,
                 !.end = sent.end + startTime]

RealSent(sent, startTime) ==
    [sent EXCEPT !.ts_list = [i \in 1..Len(sent.ts_list) |-> ShiftPair(sent.ts_list[i], startTime)],
                 !.start = IF sent.start >= 0 THEN sent.start + startTime ELSE sent.start,
                 !.end = IF sent.end >= 0 THEN sent.end + startTime ELSE sent.end]

RealStampSents(sents, startTime) == [i \in 1..Len(sents) |-> RealSent(sents[i], startTime)]

DecodeTimestampUnparsed(data) == data

\* { ...data, timestamp: data.timestamp ? JSON.parse(data.timestamp) : undefined }
DecodeTimestamp(data) ==
    IF Has(data, "timestamp") /\ data.timestamp # <<>>
    THEN Put(data, "timestamp", JSONParsePairs(data.timestamp))
    ELSE Without(data, "timestamp")

DecodeAnyOrigin(data, startTime) ==
    LET dataDecoded == DecodeTimestamp(data)
        withReal == IF Has(dataDecoded, "timestamp")
                    THEN Put(dataDecoded, "real_timestamp",
                             RealTimestamp(dataDecoded.timestamp, startTime[1]))
                    ELSE dataDecoded
    IN  IF startTime # <<>>
        THEN IF Has(dataDecoded, "stamp_sents")
             THEN Put(withReal, "real_stamp_sents",
                      RealStampSents(dataDecoded.stamp_sents, startTime[1]))
             ELSE withReal
        ELSE dataDecoded

\* The derived fields are added when startTime is defined and positive.
Decode(data, startTime) ==
    LET dataDecoded == DecodeTimestamp(data)
        withReal == IF Has(dataDecoded, "timestamp")
                    THEN Put(dataDecoded, "real_timestamp",
                             RealTimestamp(dataDecoded.timestamp, startTime[1]))
                    ELSE dataDecoded
    IN  IF startTime # <<>> /\ startTime[1] > 0
        THEN IF Has(dataDecoded, "stamp_sents")
             THEN Put(withReal, "real_stamp_sents",
                      RealStampSents(dataDecoded.stamp_sents, startTime[1]))
             ELSE withReal
        ELSE dataDecoded

\* The argument socket.onmessage passes to opts.onMessage.
Delivered(data) == IF opts.decode THEN Decode(data, opts.startTime) ELSE data

ResolveFinalAlways(p, data) == "fulfilled"

ResolveFinalFromFlag(p, data) == IF data.is_final THEN "fulfilled" ELSE "pending"

\* if (data.is_final) resolveFinal(), on the promise of the connect() that
\* installed the handler.
ResolveFinal(p, data) == IF data.is_final THEN "fulfilled" ELSE p

SignalAtCallbackResolvedFirst(p, data) == ResolveFinal(p, data)

\* The state of the connect()'s promise when the handler calls opts.onMessage:
\* the call comes before "if (data.is_final) resolveFinal()".
SignalAtCallback(p, data) == p

\* this.socket?.close(), the last statement of close().
CloseStep(sockets) ==
    IF socket = 0 THEN sockets ELSE [sockets EXCEPT ![socket] = WsClose(@)]

AfterMessageClosingOnFinal(sockets, data, released) ==
    IF data.is_final \/ released # {} THEN CloseStep(sockets) ELSE sockets

\* What a message event does to the WebSockets: the handler itself nothing,
\* each close() it releases its last statement.
AfterMessage(sockets, data, released) ==
    IF released # {} THEN CloseStep(sockets) ELSE sockets

\* The message event of WebSocket c and its handler, followed by the part
\* after the await of every close() that the fulfilled promise releases.
OnMessage(c, data) ==
    /\ ws[c].readyState = "open"
    /\ received < limit.messages
    /\ received' = received + 1
    /\ delivered' = Append(delivered, [ch |-> c, raw |-> data, msg |-> Delivered(data),
                                       startTime |-> opts.startTime,
                                       signal |-> SignalAtCallback(finals[c], data)])
    /\ finals' = [finals EXCEPT ![c] = ResolveFinal(@, data)]
    /\ LET released == {k \in 1..Len(closes) :
                          /\ closes[k].status = "waiting"
                          /\ closes[k].awaits = c
                          /\ finals'[c] = "fulfilled"}
       IN  /\ closes' = [k \in 1..Len(closes) |->
                           IF k \in released
                           THEN [closes[k] EXCEPT !.status = "returned", !.closedCh = socket]
                           ELSE closes[k]]
           /\ ws' = AfterMessage(ws, data, released)
    /\ UNCHANGED <<opts, socket, finalPromise, outcomes, observed, sends,
                   warnings, thrown, setCalls, limit, mic>>

OnErrorNotifyAlsoClosed(c) == [observed EXCEPT ![c] = @ \o <<"error", "closed">>]

\* this.opts.onStateChange?.("error", ev) in socket.onerror.
OnErrorNotify(c) == Notify(c, "error")

\* The error event of WebSocket c (the connection failed) and its handler.
\* The close event follows it.
OnError(c) ==
    /\ ws[c].ev = "none"
    /\ ws[c].readyState # "closed"
    /\ ws' = [ws EXCEPT ![c].readyState = "closed", ![c].ev = "error"]
    /\ observed' = OnErrorNotify(c)
    /\ outcomes' = [outcomes EXCEPT ![c] = Settle(@, "rejected")]
    /\ UNCHANGED <<opts, socket, finalPromise, finals, received, delivered, closes,
                   sends, warnings, thrown, setCalls, limit, mic>>

OnCloseSettleMissing(p) == p

\* reject(...) in socket.onclose.
OnCloseSettle(p) == Settle(p, "rejected")

OnCloseResolvingFinal(c) ==
    /\ ws[c].ev # "done"
    /\ ws[c].ev = "none" => ws[c].readyState # "closed"
    /\ ws' = [ws EXCEPT ![c].readyState = "closed", ![c].ev = "done"]
    /\ observed' = Notify(c, "closed")
    /\ outcomes' = [outcomes EXCEPT ![c] = OnCloseSettle(@)]
    /\ finals' = [finals EXCEPT ![c] = "fulfilled"]
    /\ UNCHANGED <<opts, socket, finalPromise, received, delivered, closes,
                   sends, warnings, thrown, setCalls, limit, mic>>

\* The close event of WebSocket c and its handler: after an error event, or
\* when the connection is closed without one.
OnClose(c) ==
    /\ ws[c].ev # "done"
    /\ ws[c].ev = "none" => ws[c].readyState # "closed"
    /\ ws' = [ws EXCEPT ![c].readyState = "closed", ![c].ev = "done"]
    /\ observed' = Notify(c, "closed")
    /\ outcomes' = [outcomes EXCEPT ![c] = OnCloseSettle(@)]
    /\ UNCHANGED <<opts, socket, finalPromise, finals, received, delivered, closes,
                   sends, warnings, thrown, setCalls, limit, mic>>

AssignStartTimeReplacingOpts(o, t) ==
    [decode |-> FALSE, startTime |-> <<t>>, config |-> EmptyObject]

\* this.opts.startTime = startTime
AssignStartTime(o, t) == [o EXCEPT !.startTime = <<t>>]

\* setStartTime(startTime)
SetStartTime(t) ==
    /\ setCalls < limit.sets
    /\ setCalls' = setCalls + 1
    /\ opts' = AssignStartTime(opts, t)
    /\ UNCHANGED <<socket, finalPromise, ws, finals, outcomes, observed, received,
                   delivered, closes, sends, warnings, thrown, limit, mic>>

CloseTransmitNothing(sockets) == sockets

\* What the first statement of close() does to the WebSockets.
CloseTransmit(sockets) ==
    IF socket # 0 /\ sockets[socket].readyState = "open"
    THEN [sockets EXCEPT ![socket] = WsSend(@, TextFrame(EndOfSpeechPayload))]
    ELSE sockets

AwaitReadyIfFulfilled(p) == p # 0 /\ finals[p] = "fulfilled"

\* await this.finalPromise and the race of close() go on in the same task
\* when there is no promise or the promise is already fulfilled.
AwaitReady(p) == p = 0 \/ finals[p] = "fulfilled"

\* close(timeout): hasTimeout is (timeout !== null).  The call is recorded with
\* the WebSocket and the readyState it found (ch, atCall), the WebSocket it sent
\* {is_speaking: false} on (eosOn), the promise it awaits, whether it had to
\* wait (suspended) and the WebSocket its last statement closed (closedCh).
CloseCall(hasTimeout) ==
    /\ Len(closes) < limit.closes
    /\ LET sentEos == CloseTransmit(ws)
           ready == AwaitReady(finalPromise)
       IN  /\ ws' = IF ready THEN CloseStep(sentEos) ELSE sentEos
           /\ closes' = Append(closes,
                  [timeout |-> hasTimeout,
                   awaits |-> finalPromise,
                   ch |-> socket,
                   atCall |-> ReadyState,
                   eosOn |-> IF sentEos # ws THEN socket ELSE 0,
                   suspended |-> ~ready,
                   status |-> IF ready THEN "returned" ELSE "waiting",
                   timer |-> IF hasTimeout THEN "armed" ELSE "none",
                   closedCh |-> IF ready THEN socket ELSE 0])
    /\ UNCHANGED <<opts, socket, finalPromise, finals, outcomes, observed, received,
                   delivered, sends, warnings, thrown, setCalls, limit>>

\* close(timeout) called by the user of the client.
Close(hasTimeout) == CloseCall(hasTimeout) /\ UNCHANGED mic

TimerResolveMissing(status) == status

\* resolve(null) in the timer callback settles the race of a close() that
\* is still waiting.
TimerResolve(status) == IF status = "waiting" THEN "returned" ELSE status

\* The timer of the k-th close() expires: resolve(null), console.warn, and the
\* part of that close() after the await when the race was still undecided.
TimerFire(k) ==
    /\ k \in 1..Len(closes)
    /\ closes[k].timer = "armed"
    /\ warnings' = warnings + 1
    /\ IF TimerResolve(closes[k].status) # closes[k].status
       THEN /\ closes' = [closes EXCEPT ![k].timer = "fired", ![k].status = "returned",
                                        ![k].closedCh = socket]
            /\ ws' = CloseStep(ws)
       ELSE /\ closes' = [closes EXCEPT ![k].timer = "fired"]
            /\ UNCHANGED ws
    /\ UNCHANGED <<opts, socket, finalPromise, finals, outcomes, observed, received,
                   delivered, sends, thrown, setCalls, limit, mic>>

Next ==
    \/ Connect
    \/ \E c \in 1..Len(ws) : OnOpen(c)
    \/ \E c \in 1..Len(ws), data \in InboundMessages : OnMessage(c, data)
    \/ \E c \in 1..Len(ws) : OnError(c)
    \/ \E c \in 1..Len(ws) : OnClose(c)
    \/ \E t \in StartTimes : SetStartTime(t)
    \/ Send
    \/ \E hasTimeout \in BOOLEAN : Close(hasTimeout)
    \/ \E k \in 1..MaxCloses : TimerFire(k)

Spec == Init /\ [][Next]_vars

\* One connection with several close() calls, or a session that connects
\* again; the timer of a close(timeout) call expires eventually.
CloseLimit == [connects |-> 1, messages |-> 1, sends |-> 1, closes |-> MaxCloses, sets |-> 1]

FairInit ==
    /\ Constructed
    /\ limit \in {CloseLimit, ReconnectLimit}
    /\ opts = PlainOpts

FairSpec == FairInit /\ [][Next]_vars /\ \A k \in 1..MaxCloses : WF_vars(TimerFire(k))

(***************************************************************************)
(* MicASR: a client with decode on, fed by an AudioRecorder.               *)
(*   start, stop : where the call of start() and of stop() is              *)
(*   stream, context, source, processor : the fields of the AudioRecorder  *)
(***************************************************************************)
\* MicASR.start(): this.client.connect(), then recorder.start() up to its
\* await of getUserMedia().
MicStart ==
    /\ mic.start = "idle"
    /\ ConnectCall
    /\ mic' = [mic EXCEPT !.start = "awaitMedia"]

\* getUserMedia() is fulfilled: recorder.start() creates the context, the
\* source and the processor and connects them, and start() returns.
MediaGranted ==
    /\ mic.start = "awaitMedia"
    /\ mic' = [mic EXCEPT !.start = "returned", !.stream = "live", !.context = "running",
                          !.source = "connected", !.processor = "connected"]
    /\ UNCHANGED <<opts, socket, finalPromise, ws, finals, outcomes, observed, received,
                   delivered, closes, sends, warnings, thrown, setCalls, limit>>

\* An audioprocess event of the connected processor: this.onAudio(pcm), which
\* is this.client.send(pcm).
AudioProcess ==
    /\ mic.processor = "connected" /\ mic.context = "running"
    /\ SendCall
    /\ UNCHANGED mic

\* this.processor?.disconnect() and this.source?.disconnect()
Disconnect(node) == IF node = "connected" THEN "disconnected" ELSE node

\* this.stream?.getTracks().forEach(track => track.stop())
StopTracks(stream) == IF stream = "live" THEN "stopped" ELSE stream

\* MicASR.stop(), called once start() has been called, returned or not:
\* recorder.stop() up to its await of context.close().  When the recorder has
\* no context yet the await goes on in the same task: the tracks are stopped
\* and this.client.close() is called.
MicStop ==
    /\ mic.start # "idle"
    /\ mic.stop = "idle"
    /\ IF mic.context = "none"
       THEN /\ CloseCall(FALSE)
            /\ mic' = [mic EXCEPT !.stop = "awaitClient",
                                  !.processor = Disconnect(@), !.source = Disconnect(@),
                                  !.stream = StopTracks(@)]
       ELSE /\ mic' = [mic EXCEPT !.stop = "awaitContext",
                                  !.processor = Disconnect(@), !.source = Disconnect(@)]
            /\ UNCHANGED <<opts, socket, finalPromise, ws, finals, outcomes, observed,
                           received, delivered, closes, sends, warnings, thrown,
                           setCalls, limit>>

\* context.close() is fulfilled: recorder.stop() stops the tracks and
\* returns, and stop() calls this.client.close().
ContextClosed ==
    /\ mic.stop = "awaitContext"
    /\ CloseCall(FALSE)
    /\ mic' = [mic EXCEPT !.stop = "awaitClient", !.context = "closed",
                          !.stream = StopTracks(@)]

\* stop() has returned: the close() it awaits has returned.
MicStopReturned ==
    mic.stop = "awaitClient" /\ Len(closes) > 0 /\ closes[Len(closes)].status = "returned"

MicNext ==
    \/ MicStart
    \/ MediaGranted
    \/ AudioProcess
    \/ MicStop
    \/ ContextClosed
    \/ \E c \in 1..Len(ws) : OnOpen(c)
    \/ \E c \in 1..Len(ws), data \in InboundMessages : OnMessage(c, data)
    \/ \E c \in 1..Len(ws) : OnError(c)
    \/ \E c \in 1..Len(ws) : OnClose(c)

\* One start() and one stop() of a MicASR, stop() before or after start() returns.
MicLimit == [connects |-> 1, messages |-> MaxMessages, sends |-> MaxSends,
             closes |-> 1, sets |-> 0]

MicInit ==
    /\ Constructed
    /\ limit = MicLimit
    /\ opts = PlainOpts

MicSpec == MicInit /\ [][MicNext]_vars

(***************************************************************************)
(* Properties.                                                             *)
(***************************************************************************)
Wire(c) == ws[c].wire

\* C1: on every WebSocket a session opens, nothing is transmitted before the
\* open event; from the open event on the handshake (is_speaking true) is the
\* first transmission and the only handshake, so it precedes every audio frame.
C1_HandshakeOnceFirst ==
    \A c \in 1..Len(ws) :
        IF ws[c].opened
        THEN /\ Len(Wire(c)) >= 1
             /\ IsHandshake(Wire(c)[1])
             /\ \A i \in 2..Len(Wire(c)) : ~IsHandshake(Wire(c)[i])
        ELSE Wire(c) = <<>>

\* A send() before the open event was dropped and a later one was transmitted
\* behind the handshake.
C1_Witness ==
    \E c \in 1..Len(ws) :
        /\ Len(sends) >= 2 /\ sends[1] = "connecting"
        /\ Len(Wire(c)) >= 2 /\ IsHandshake(Wire(c)[1]) /\ IsAudio(Wire(c)[2])

\* The completion signal of the session: the state of this.finalPromise.
SessionSignal == IF finalPromise = 0 THEN "none" ELSE finals[finalPromise]

\* C2 as stated: once the completion signal of the session is fulfilled it
\* stays fulfilled, whatever the caller does.
C2_SessionSignalNeverPending ==
    [][SessionSignal = "fulfilled" => SessionSignal' = "fulfilled"]_vars

\* C2 amended: the promise created by each connect() never leaves fulfilled,
\* however many terminal messages arrive, and the signal of the session goes
\* back to pending only in a connect() call, which installs a new promise.
C2_PromiseFulfilledOnce ==
    [][/\ \A p \in 1..Len(finals) : finals[p] = "fulfilled" => finals'[p] = "fulfilled"
       /\ (SessionSignal = "fulfilled" /\ SessionSignal' # "fulfilled")
             => (Len(ws') = Len(ws) + 1 /\ finalPromise' = Len(finals'))]_vars

\* Two terminal messages were handled on one WebSocket.
C2_Witness ==
    \E c \in 1..Len(ws) :
        /\ finals[c] = "fulfilled"
        /\ Cardinality({i \in 1..Len(delivered) :
                           delivered[i].ch = c /\ delivered[i].raw.is_final}) >= 2

\* C3: a close(timeout) call returns eventually, also when no terminal message
\* ever arrives, and at its return the WebSocket of the session, if there is
\* one, is closing or closed.
C3_CloseTimeoutTerminates ==
    /\ \A k \in 1..MaxCloses :
          (k <= Len(closes) /\ closes[k].timeout)
             ~> (k <= Len(closes) /\ closes[k].status = "returned")
    /\ [][\A k \in 1..Len(closes') :
             (/\ closes'[k].timeout
              /\ closes'[k].status = "returned"
              /\ (k > Len(closes) \/ closes[k].status = "waiting"))
                => (socket' # 0 => ws'[socket'].readyState \in {"closing", "closed"})]_vars

\* A close(timeout) call that had to wait returned on the expiry of its timer
\* while the promise it awaited is still pending.
C3_Witness ==
    \E k \in 1..Len(closes) :
        /\ closes[k].timeout /\ closes[k].suspended
        /\ closes[k].status = "returned" /\ closes[k].timer = "fired"
        /\ finals[closes[k].awaits] = "pending"
        /\ ws[closes[k].closedCh].readyState \in {"closing", "closed"}

\* The receive handler has processed a terminal message on WebSocket c.
FinalProcessed(c) ==
    \E i \in 1..Len(delivered) : delivered[i].ch = c /\ delivered[i].raw.is_final

\* C4: a close() without timeout on a connected session has performed its
\* channel-close step and returned only if a message with is_final true has
\* been processed, and it is not left waiting once one has been processed.
C4_CloseWaitsForFinal ==
    \A k \in 1..Len(closes) :
        (~closes[k].timeout /\ closes[k].awaits # 0) =>
            /\ closes[k].status = "returned" =>
                  /\ FinalProcessed(closes[k].awaits)
                  /\ closes[k].closedCh # 0
                  /\ ws[closes[k].closedCh].readyState \in {"closing", "closed"}
            /\ closes[k].status = "waiting" =>
                  /\ ~FinalProcessed(closes[k].awaits)
                  /\ closes[k].closedCh = 0

\* A close() without timeout found the WebSocket open, had to wait and returned.
C4_Witness ==
    \E k \in 1..Len(closes) :
        /\ ~closes[k].timeout /\ closes[k].atCall = "open" /\ closes[k].suspended
        /\ closes[k].status = "returned"
        /\ ws[closes[k].closedCh].readyState \in {"closing", "closed"}

\* Frame n (the n-th call of send) is somewhere on a wire.
Transmitted(n) ==
    \E c \in 1..Len(ws) : \E i \in 1..Len(Wire(c)) :
        IsAudio(Wire(c)[i]) /\ Wire(c)[i].body = n

\* C5: a send() that finds no WebSocket or a WebSocket that is not open raises
\* no error and its frame is never transmitted, then or later.
C5_SendDropsWhenNotOpen ==
    /\ "send" \notin thrown
    /\ \A n \in 1..Len(sends) : sends[n] # "open" => ~Transmitted(n)

\* A frame was dropped while connecting and a later frame was transmitted
\* after the open event.
C5_Witness ==
    /\ Len(sends) >= 2
    /\ sends[1] = "connecting" /\ ~Transmitted(1)
    /\ sends[2] = "open" /\ Transmitted(2)

\* C6: the outcome of connect() is successful only after the open event with
\* the handshake transmitted, is a failure when the WebSocket signalled an error
\* or closed before it opened, and is not pending after any of these events.
C6_ConnectOutcome ==
    \A c \in 1..Len(ws) :
        /\ outcomes[c] = "resolved" =>
              (ws[c].opened /\ Len(Wire(c)) >= 1 /\ IsHandshake(Wire(c)[1]))
        /\ (~ws[c].opened /\ ws[c].ev # "none") => outcomes[c] = "rejected"
        /\ (ws[c].opened \/ ws[c].ev # "none") => outcomes[c] # "pending"

\* One connect() failed on a close without error before the open event and a
\* later connect() succeeded.
C6_Witness ==
    \E c1, c2 \in 1..Len(ws) :
        /\ outcomes[c1] = "rejected" /\ observed[c1] = <<"closed">>
        /\ outcomes[c2] = "resolved" /\ ws[c2].opened

\* C7: a settled outcome of connect() never changes, and every error and close
\* event is reported to the state-change observer as "error" or "closed".
C7_OutcomeSettlesOnce ==
    [][\A c \in 1..Len(ws) :
          /\ outcomes[c] # "pending" => outcomes'[c] = outcomes[c]
          /\ ws'[c].ev # ws[c].ev =>
                observed'[c] = Append(observed[c],
                                      IF ws'[c].ev = "error" THEN "error" ELSE "closed")]_vars

\* One connect() failed on error and saw the close event after it; another
\* succeeded and its WebSocket then signalled error and close.
C7_Witness ==
    \E c1, c2 \in 1..Len(ws) :
        /\ outcomes[c1] = "rejected" /\ observed[c1] = <<"error", "closed">>
        /\ outcomes[c2] = "resolved" /\ observed[c2] = <<"connected", "error", "closed">>

EndOfSpeechCount(c) ==
    Cardinality({i \in 1..Len(Wire(c)) : IsEndOfSpeech(Wire(c)[i])})

\* C8: a close() transmits {is_speaking: false}, on the WebSocket of the
\* session, exactly when it finds that WebSocket open, and each WebSocket
\* carries one such message per close() that found it open.
C8_EndOfSpeechWhenOpen ==
    /\ \A k \in 1..Len(closes) :
          /\ closes[k].atCall = "open" => closes[k].eosOn = closes[k].ch
          /\ closes[k].atCall # "open" => closes[k].eosOn = 0
    /\ \A c \in 1..Len(ws) :
          EndOfSpeechCount(c) = Cardinality({k \in 1..Len(closes) : closes[k].eosOn = c})

\* A close() found the WebSocket open, transmitted the signal and is waiting.
C8_Witness ==
    \E k \in 1..Len(closes) :
        /\ closes[k].atCall = "open" /\ closes[k].status = "waiting"
        /\ EndOfSpeechCount(closes[k].ch) = 1

\* C9: on no WebSocket is an audio frame transmitted after {is_speaking: false}.
C9_NoAudioAfterEndOfSpeech ==
    \A c \in 1..Len(ws) : \A i, j \in 1..Len(Wire(c)) :
        (i < j /\ IsEndOfSpeech(Wire(c)[i])) => ~IsAudio(Wire(c)[j])

\* The pairs each timestamp text of InboundMessages encodes.
PairsOf(text) ==
    IF text = TextPartial THEN << <<100, 200>>, <<200, 500>> >> ELSE << <<0, 100>> >>

DerivedFields == {"real_timestamp", "real_stamp_sents"}

\* C10: every message event causes one call of the message callback; with
\* decode off the argument is the parsed message itself, with decode on it is
\* that message with timestamp replaced by the pairs its text encodes (absent
\* when the message has none), all other fields of the message unchanged.
C10_DecodeToggle ==
    /\ Len(delivered) = received
    /\ \A i \in 1..Len(delivered) :
          LET raw == delivered[i].raw
              msg == delivered[i].msg
          IN  /\ \A f \in (DOMAIN raw) \ {"timestamp"} : Has(msg, f) /\ msg[f] = raw[f]
              /\ Has(msg, "timestamp") <=> Has(raw, "timestamp")
              /\ IF opts.decode
                 THEN /\ (DOMAIN msg) \subseteq ((DOMAIN raw) \cup DerivedFields)
                      /\ Has(raw, "timestamp") =>
                            (/\ Len(msg.timestamp) = Len(PairsOf(raw.timestamp))
                             /\ msg.timestamp = PairsOf(raw.timestamp))
                 ELSE /\ DOMAIN msg = DOMAIN raw
                      /\ Has(raw, "timestamp") =>
                            (/\ Len(msg.timestamp) = Len(raw.timestamp)
                             /\ msg.timestamp = raw.timestamp)

\* With decode on, a message with a timestamp text was delivered with the
\* pairs, after a message without one.
C10_Witness ==
    /\ opts.decode
    /\ Len(delivered) = 2
    /\ ~Has(delivered[1].raw, "timestamp") /\ ~Has(delivered[1].msg, "timestamp")
    /\ Has(delivered[2].raw, "timestamp") /\ delivered[2].raw.timestamp = TextPartial
    /\ delivered[2].msg.timestamp = << <<100, 200>>, <<200, 500>> >>

\* The origin a message was decoded under, when it was defined and positive.
PositiveOrigin(d) == d.startTime # <<>> /\ d.startTime[1] > 0

\* C11: with decode on and a positive origin O, every pair [a, b] of the
\* message's timestamp is delivered in real_timestamp as [a + O, b + O], and
\* every sentence of stamp_sents is delivered in real_stamp_sents with start
\* and end raised by O when they are 0 or more and unchanged when negative
\* (430 and 1130 become 1430 and 2130 under O = 1000, -1 stays -1).
C11_ShiftByOrigin ==
    \A i \in 1..Len(delivered) :
        (opts.decode /\ PositiveOrigin(delivered[i])) =>
            LET raw == delivered[i].raw
                msg == delivered[i].msg
                O == delivered[i].startTime[1]
            IN  /\ Has(raw, "timestamp") =>
                      /\ Has(msg, "real_timestamp")
                      /\ Len(msg.real_timestamp) = Len(PairsOf(raw.timestamp))
                      /\ \A j \in 1..Len(msg.real_timestamp) :
                            msg.real_timestamp[j] = <<PairsOf(raw.timestamp)[j][1] + O,
                                                      PairsOf(raw.timestamp)[j][2] + O>>
                /\ Has(raw, "stamp_sents") =>
                      /\ Has(msg, "real_stamp_sents")
                      /\ Len(msg.real_stamp_sents) = Len(raw.stamp_sents)
                      /\ \A j \in 1..Len(raw.stamp_sents) :
                            LET sent == raw.stamp_sents[j]
                                real == msg.real_stamp_sents[j]
                            IN  /\ real.start = IF sent.start < 0 THEN sent.start
                                                                  ELSE sent.start + O
                                /\ real.end = IF sent.end < 0 THEN sent.end
                                                              ELSE sent.end + O
                /\ (O = 1000 /\ Has(raw, "stamp_sents") /\ raw.stamp_sents = SentsPartial) =>
                      /\ msg.real_stamp_sents[1].start = 1430
                      /\ msg.real_stamp_sents[1].end = 2130
                      /\ msg.real_stamp_sents[2].start = 0 - 1
                      /\ msg.real_stamp_sents[2].end = 0 - 1

\* Under origin 1000 a message with two pairs and two sentences, one of them
\* with negative bounds, was decoded.
C11_Witness ==
    /\ opts.decode
    /\ \E i \in 1..Len(delivered) :
          /\ delivered[i].startTime = <<1000>>
          /\ Has(delivered[i].raw, "stamp_sents")
          /\ delivered[i].raw.stamp_sents = SentsPartial
          /\ delivered[i].msg.real_timestamp = << <<1100, 1200>>, <<1200, 1500>> >>
          /\ delivered[i].msg.real_stamp_sents[1].start = 1430
          /\ delivered[i].msg.real_stamp_sents[2].start = 0 - 1

\* C12: a setStartTime() call changes opts.startTime and nothing else: it
\* transmits nothing, leaves the WebSockets, the promises and the pending
\* close() calls alone, and the messages delivered before it are neither
\* delivered again nor altered; a message handled after the call is decoded
\* under the origin the call set.
C12_SetStartTimeOnlyOrigin ==
    [][/\ setCalls' # setCalls =>
             /\ opts'.startTime # <<>>
             /\ opts'.decode = opts.decode /\ opts'.config = opts.config
             /\ delivered' = delivered /\ received' = received
             /\ ws' = ws /\ socket' = socket
             /\ finalPromise' = finalPromise /\ finals' = finals
             /\ outcomes' = outcomes /\ observed' = observed
             /\ closes' = closes /\ sends' = sends
             /\ warnings' = warnings /\ thrown' = thrown
       /\ Len(delivered') > Len(delivered) =>
             LET d == delivered'[Len(delivered')]
             IN  /\ SubSeq(delivered', 1, Len(delivered)) = delivered
                 /\ d.startTime = opts.startTime
                 /\ (opts.decode /\ Has(d.raw, "timestamp")) =>
                       IF PositiveOrigin(d)
                       THEN /\ Has(d.msg, "real_timestamp")
                            /\ d.msg.real_timestamp[1] =
                                  <<PairsOf(d.raw.timestamp)[1][1] + opts.startTime[1],
                                    PairsOf(d.raw.timestamp)[1][2] + opts.startTime[1]>>
                       ELSE ~Has(d.msg, "real_timestamp")]_vars

\* A message was decoded without an origin, then setStartTime(1000) was
\* called, then the same message was decoded under origin 1000.
C12_Witness ==
    /\ opts.decode
    /\ setCalls = 1
    /\ Len(delivered) = 2
    /\ delivered[1].startTime = <<>> /\ delivered[2].startTime = <<1000>>
    /\ delivered[1].raw = delivered[2].raw
    /\ Has(delivered[1].raw, "timestamp")
    /\ ~Has(delivered[1].msg, "real_timestamp")
    /\ delivered[2].msg.real_timestamp = << <<1100, 1200>>, <<1200, 1500>> >>

\* C13: console.warn is called only in a step in which a close(timeout) that
\* was waiting goes on to close the WebSocket while the promise it awaits is
\* still pending; a close(timeout) that a terminal message released, or that
\* never waited, causes no warning at that time or later.
C13_WarningOnlyOnForcedClose ==
    [][warnings' # warnings =>
          \E k \in 1..Len(closes) :
              /\ closes[k].timeout
              /\ closes[k].status = "waiting" /\ closes'[k].status = "returned"
              /\ finals[closes[k].awaits] = "pending"]_vars

\* The timer won the race of the k-th close(): the call waited, went on when
\* its timer expired, and the promise it awaited is still pending.
TimerWon(k) ==
    /\ closes[k].timeout /\ closes[k].suspended
    /\ closes[k].status = "returned" /\ closes[k].timer = "fired"
    /\ finals[closes[k].awaits] = "pending"

\* C14: once the timer has won the race of a close(timeout), a terminal
\* message of the connection that close() was waiting for is not passed to
\* the message callback, and the close() is not run again: its record, with
\* the WebSocket it closed, stays as it is.
C14_LateFinalUnobserved ==
    [][\A k \in 1..Len(closes) :
          TimerWon(k) =>
              /\ closes'[k] = closes[k]
              /\ ~(/\ Len(delivered') > Len(delivered)
                    /\ delivered'[Len(delivered')].ch = closes[k].awaits
                    /\ delivered'[Len(delivered')].raw.is_final)]_vars

\* The k-th close() runs its last statement, this.socket?.close(), in this step.
CloseStepRuns(k) ==
    /\ k \in 1..Len(closes')
    /\ closes'[k].status = "returned"
    /\ k \in 1..Len(closes) => closes[k].status = "waiting"

\* C16: a WebSocket leaves the states connecting and open for closing only
\* in a step in which a close() runs its last statement, so a terminal
\* message with no close() released by it leaves every WebSocket as it is;
\* on a WebSocket that is open after its terminal message a send() call
\* still transmits its frame and a message event still calls the callback.
C16_FinalKeepsChannelOpen ==
    [][/\ \A c \in 1..Len(ws) :
             (ws[c].readyState \in {"connecting", "open"} /\ ws'[c].readyState = "closing")
                 => \E k \in 1..Len(closes') : CloseStepRuns(k) /\ closes'[k].closedCh = c
       /\ (received' # received /\ \A k \in 1..Len(closes) : closes[k].status # "waiting")
             => ws' = ws
       /\ (/\ socket # 0 /\ finals[socket] = "fulfilled"
            /\ ws[socket].readyState = "open" /\ ws'[socket].readyState = "open")
             => /\ Len(sends') > Len(sends) =>
                      ws'[socket].wire = Append(ws[socket].wire, BinaryFrame(Len(sends')))
                /\ received' # received => Len(delivered') = Len(delivered) + 1]_vars

\* After a terminal message, with no close() called, the WebSocket is open,
\* a later message was delivered and an audio frame was transmitted.
C16_Witness ==
    /\ closes = <<>>
    /\ socket = 1 /\ ws[1].readyState = "open" /\ finals[1] = "fulfilled"
    /\ Len(delivered) = 2 /\ delivered[1].raw.is_final /\ ~delivered[2].raw.is_final
    /\ Len(sends) = 1 /\ Transmitted(1)

\* The observer was told "error" for WebSocket c.
ErrorNotified(c) == \E i \in 1..Len(observed[c]) : observed[c][i] = "error"

\* C17 as stated: after the "error" notification of a WebSocket the observer
\* is told nothing more for it.
C17_ErrorAbsorbing ==
    [][\A c \in 1..Len(ws) : ErrorNotified(c) => observed'[c] = observed[c]]_vars

\* C17, amended: an error event is notified as "error"; after that the
\* observer is told at most one more state for that WebSocket, "closed", right
\* after "error", and never "connected"; nothing more is transmitted on the
\* WebSocket; and the handlers of the error and close events create no
\* WebSocket and leave this.socket alone.
C17_ErrorThenOnlyClosed ==
    [][/\ \A c \in 1..Len(ws) :
             /\ (ws[c].ev = "none" /\ ws'[c].ev = "error") =>
                    observed'[c] = Append(observed[c], "error")
             /\ ErrorNotified(c) =>
                    /\ \/ observed'[c] = observed[c]
                       \/ /\ observed[c][Len(observed[c])] = "error"
                          /\ observed'[c] = Append(observed[c], "closed")
                    /\ ws'[c].wire = ws[c].wire
                    /\ ws'[c].readyState = "closed"
       /\ (\E c \in 1..Len(ws) : ws'[c].ev # ws[c].ev) =>
             (Len(ws') = Len(ws) /\ socket' = socket)]_vars

\* An open WebSocket failed: the observer was told "connected", "error" and
\* "closed", and a send() and a close() called afterwards found it closed and
\* transmitted nothing.
C17_Witness ==
    /\ Len(ws) = 1
    /\ observed[1] = <<"connected", "error", "closed">>
    /\ Len(ws[1].wire) = 1
    /\ Len(sends) = 1 /\ sends[1] = "closed"
    /\ Len(closes) = 1 /\ closes[1].atCall = "closed" /\ closes[1].eosOn = 0

\* The text JSON.stringify gives for the hotword maps of Configs.
HotwordsText(hotwords) ==
    IF Len(hotwords) = 0 THEN <<"{", "}">>
    ELSE <<"{", "\"", "alpha", "\"", ":", "1", "0", "}">>

\* C18: the first message of every WebSocket has is_speaking true whatever
\* the configuration holds; chunk_size [5, 10, 5] when the configuration has
\* none and the configured value otherwise; hotwords, the JSON text of the
\* hotword map, exactly when the configuration has a hotword map; every other
\* field of the configuration as it is, and no field the configuration lacks.
C18_HandshakePayload ==
    \A c \in 1..Len(ws) :
        Len(Wire(c)) > 0 =>
            LET payload == Wire(c)[1].body
                config == opts.config
            IN  /\ DOMAIN payload = (DOMAIN config) \cup {"is_speaking", "chunk_size"}
                /\ payload.is_speaking = TRUE
                /\ payload.chunk_size = IF Has(config, "chunk_size") THEN config.chunk_size
                                                                      ELSE <<5, 10, 5>>
                /\ Has(payload, "hotwords") <=> Has(config, "hotwords")
                /\ Has(config, "hotwords") =>
                      (/\ Len(payload.hotwords) = Len(HotwordsText(config.hotwords))
                       /\ payload.hotwords = HotwordsText(config.hotwords))
                /\ \A f \in (DOMAIN config) \ {"is_speaking", "chunk_size", "hotwords"} :
                      payload[f] = config[f]

\* A handshake was sent for a configuration with a hotword map and no chunk size.
C18_Witness ==
    /\ opts.config = [mode |-> "2pass", hotwords |-> << <<"alpha", 10>> >>]
    /\ Len(ws) = 1 /\ Len(Wire(1)) > 0
    /\ Wire(1)[1].body.chunk_size = <<5, 10, 5>>
    /\ Wire(1)[1].body.hotwords = <<"{", "\"", "alpha", "\"", ":", "1", "0", "}">>

\* C19: with decode on, a delivered message has real_timestamp or
\* real_stamp_sents only when opts.startTime was defined and above 0 when the
\* message was handled; under an undefined, zero or negative origin it has
\* neither.  In every case the fields of the message that arrived are
\* delivered with their values, timestamp as the pairs its text encodes.
C19_DerivedOnlyUnderPositiveOrigin ==
    \A i \in 1..Len(delivered) :
        opts.decode =>
            LET raw == delivered[i].raw
                msg == delivered[i].msg
            IN  /\ (\E f \in DerivedFields : Has(msg, f)) => PositiveOrigin(delivered[i])
                /\ ~PositiveOrigin(delivered[i]) => DOMAIN msg = DOMAIN raw
                /\ \A f \in (DOMAIN raw) \ {"timestamp"} : Has(msg, f) /\ msg[f] = raw[f]
                /\ Has(raw, "timestamp") =>
                      (/\ Has(msg, "timestamp")
                       /\ Len(msg.timestamp) = Len(PairsOf(raw.timestamp))
                       /\ msg.timestamp = PairsOf(raw.timestamp))

\* The same message, with a timestamp and sentences, was decoded under a
\* negative origin without derived fields and under origin 1000 with both.
C19_Witness ==
    /\ opts.decode
    /\ Len(delivered) = 2
    /\ delivered[1].startTime = <<0 - 5>> /\ delivered[2].startTime = <<1000>>
    /\ delivered[1].raw = delivered[2].raw
    /\ Has(delivered[1].raw, "timestamp") /\ Has(delivered[1].raw, "stamp_sents")
    /\ DOMAIN delivered[1].msg = DOMAIN delivered[1].raw
    /\ Has(delivered[2].msg, "real_timestamp") /\ Has(delivered[2].msg, "real_stamp_sents")

\* A message with is_final true is handled on WebSocket p in this step.
FinalHandled(p) ==
    /\ received' = received + 1
    /\ delivered'[Len(delivered')].ch = p
    /\ delivered'[Len(delivered')].raw.is_final

\* C20: a promise of a connect() goes from pending to fulfilled only in a
\* step that handles a message with is_final true on that WebSocket, never in
\* the step of an error event, a close event or a timer; so a close() with no
\* timeout that is waiting is released only by such a message, and stays
\* waiting when the WebSocket fails or closes without one.
C20_OnlyFinalMessageFulfils ==
    [][/\ \A p \in 1..Len(finals) :
             (finals[p] = "pending" /\ finals'[p] = "fulfilled") => FinalHandled(p)
       /\ \A k \in 1..Len(closes) :
             (~closes[k].timeout /\ closes[k].status = "waiting"
                                /\ closes'[k].status # "waiting")
                 => FinalHandled(closes[k].awaits)]_vars

\* A close() with no timeout is still waiting after the WebSocket it sent
\* end-of-speech on failed and closed with no terminal message.
C20_Witness ==
    /\ Len(closes) = 1
    /\ ~closes[1].timeout /\ closes[1].status = "waiting" /\ closes[1].eosOn = 1
    /\ ws[1].ev = "done" /\ observed[1] = <<"connected", "error", "closed">>
    /\ finals[1] = "pending"

\* C15: in a MicASR no audio frame is handed to the client's send() once
\* stop() has sent {is_speaking: false}, and while stop() has returned the
\* recorder is not running: its processor is not connected and its tracks are
\* not live.
C15_StopSilencesRecorder ==
    [][/\ Len(sends') > Len(sends) => \A k \in 1..Len(closes) : closes[k].eosOn = 0
       /\ MicStopReturned' => (mic'.processor # "connected" /\ mic'.stream # "live")]_vars

\* The call of opts.onMessage made in this step: for a message with is_final
\* true of WebSocket p, made while the promise of p was still pending.
FinalHandedOver(p) ==
    /\ Len(delivered') = Len(delivered) + 1
    /\ LET d == delivered'[Len(delivered')]
       IN  /\ d.ch = p /\ d.raw.is_final
           /\ d.msg.is_final /\ d.msg.text = d.raw.text
           /\ d.signal = "pending"

\* C21: the promise of a connect() is fulfilled only in a step whose handler
\* has first called opts.onMessage with the terminal message, the promise
\* being pending at that call; so a close() that the fulfilled promise
\* releases closes the WebSocket and returns only once the callback has been
\* given the terminal message that released it.
C21_CallbackBeforeFulfilment ==
    [][/\ \A p \in 1..Len(finals) :
             (finals[p] = "pending" /\ finals'[p] = "fulfilled") => FinalHandedOver(p)
       /\ \A k \in 1..Len(closes) :
             (/\ closes[k].status = "waiting" /\ closes'[k].status = "returned"
              /\ finals'[closes[k].awaits] = "fulfilled")
                 => /\ FinalHandedOver(closes[k].awaits)
                    /\ ws[closes[k].awaits].readyState = "open"]_vars

\* A close() that waited was released by a terminal message: the callback got
\* that message while the promise was pending, and the WebSocket is closing.
C21_Witness ==
    /\ Len(closes) = 1
    /\ closes[1].suspended /\ closes[1].status = "returned" /\ ~closes[1].timeout
    /\ closes[1].closedCh = 1 /\ ws[1].readyState = "closing"
    /\ Len(delivered) = 1
    /\ delivered[1].raw.is_final /\ delivered[1].signal = "pending"
    /\ finals[1] = "fulfilled"

\* C22: a close() call, with or without a timeout, on a client whose connect()
\* was never called (no WebSocket, no promise) transmits nothing, raises no
\* error and returns in the same step, without waiting for a message and
\* without closing anything.
C22_CloseWithoutConnect ==
    [][(Len(closes') > Len(closes) /\ socket = 0 /\ finalPromise = 0) =>
          LET call == closes'[Len(closes')]
          IN  /\ ws' = ws /\ ws = <<>>
              /\ thrown' = thrown
              /\ call.eosOn = 0 /\ call.closedCh = 0
              /\ ~call.suspended /\ call.status = "returned"
              /\ received' = received /\ finals' = finals]_vars

\* close() with no timeout was called before any connect() and has returned.
C22_Witness ==
    /\ ws = <<>> /\ socket = 0
    /\ Len(closes) = 1
    /\ ~closes[1].timeout /\ closes[1].atCall = "none" /\ closes[1].awaits = 0
    /\ closes[1].status = "returned"
    /\ thrown = {}

\* C23: with decode on and a positive origin O, every pair [a, b] of the
\* ts_list of a sentence is delivered in real_stamp_sents as [a + O, b + O],
\* negative members included ([-1, -1] becomes [999, 999] under O = 1000),
\* while start and end of that sentence are raised by O only when they are 0
\* or more; text_seg and punc are the ones that arrived, and the sentence
\* gets no other field.
C23_SentencePairsShifted ==
    \A i \in 1..Len(delivered) :
        (opts.decode /\ PositiveOrigin(delivered[i]) /\ Has(delivered[i].raw, "stamp_sents")) =>
            LET sents == delivered[i].raw.stamp_sents
                reals == delivered[i].msg.real_stamp_sents
                O == delivered[i].startTime[1]
            IN  /\ Len(reals) = Len(sents)
                /\ \A j \in 1..Len(sents) :
                      /\ DOMAIN reals[j] = DOMAIN sents[j]
                      /\ reals[j].text_seg = sents[j].text_seg
                      /\ reals[j].punc = sents[j].punc
                      /\ Len(reals[j].ts_list) = Len(sents[j].ts_list)
                      /\ \A n \in 1..Len(sents[j].ts_list) :
                            reals[j].ts_list[n] = <<sents[j].ts_list[n][1] + O,
                                                    sents[j].ts_list[n][2] + O>>
                      /\ (sents[j].start < 0) => reals[j].start = sents[j].start
                      /\ (sents[j].start >= 0) => reals[j].start = sents[j].start + O
                      /\ (sents[j].end < 0) => reals[j].end = sents[j].end
                      /\ (sents[j].end >= 0) => reals[j].end = sents[j].end + O
                      /\ (O = 1000 /\ sents[j].ts_list = << <<0 - 1, 0 - 1>> >>) =>
                            reals[j].ts_list = << <<999, 999>> >>

\* Under origin 1000 a sentence with start, end and ts_list pair of -1 was
\* delivered with start and end -1 and the pair [999, 999].
C23_Witness ==
    /\ opts.decode
    /\ \E i \in 1..Len(delivered) :
          /\ delivered[i].startTime = <<1000>>
          /\ Has(delivered[i].raw, "stamp_sents")
          /\ delivered[i].raw.stamp_sents = SentsPartial
          /\ delivered[i].msg.real_stamp_sents[2].ts_list = << <<999, 999>> >>
          /\ delivered[i].msg.real_stamp_sents[2].end = 0 - 1
          /\ delivered[i].msg.real_stamp_sents[2].punc = ""
          /\ delivered[i].msg.real_stamp_sents[1].ts_list = << <<1430, 1670>>, <<1670, 2130>> >>
          /\ delivered[i].msg.real_stamp_sents[1].text_seg = "a b"
====
